---------------------------- MODULE Spec2Model ----------------------------
(***************************************************************************)
(* A model of claude-army (src/src/index.js): the task registry, the Task  *)
(* record, the stream-json reassembler and the five tool handlers, with    *)
(* the callbacks of each worker's child process as separate actions.       *)
(*                                                                         *)
(* Text is a sequence of one-character strings.  A nullable value is a     *)
(* sequence of length at most one: None is null, <<v>> is the value v.     *)
(***************************************************************************)
EXTENDS Integers, Sequences, FiniteSets, TLC

\* ------------------------------------------------------------ configuration
MAX_CONCURRENT_TASKS == 5

ProgressCap == 50

FirstLineCap == 120

\* ------------------------------------------------------------ model bounds
\* Task objects ever constructed in a run of the engine specification.
MaxTasks == 1

\* Task objects ever constructed in a run of the pair specification.
MaxPairTasks == 2

\* Task objects ever constructed in a run of the admission specification.
MaxAdmTasks == 6

\* Task objects ever constructed in a run of the cancellation specification.
MaxCancelTasks == 1

\* The largest tail_lines a get_task_output request carries.
MaxTail == 2

\* Records in the long output stream of the stream specification.
MaxRecords == 51

\* Bytes in one chunk a data callback is given.
MaxChunk == 9

\* The clock stops advancing at this value.
MaxClock == 1

\* ------------------------------------------------------------ values
None == <<>>

Some(v) == <<v>>

NL == "\n"

SP == " "

\* The two bytes of one two-byte UTF-8 character, and the character itself.
LEAD == "C3"

CONT == "A9"

EACUTE == "e'"

\* U+FFFD, what Buffer.toString() yields for a malformed UTF-8 sequence.
REPLACEMENT == "U+FFFD"

\* The escape sequence that stands for a line feed inside a JSON string.
ESCNL == "\\n"

\* ------------------------------------------------------------ text helpers
Last(s) == s[Len(s)]

Front(s) == SubSeq(s, 1, Len(s) - 1)

\* Array.prototype.slice(-n) / String.prototype.slice(-n) for n > 0.
SliceLast(s, n) == IF Len(s) <= n THEN s ELSE SubSeq(s, Len(s) - n + 1, Len(s))

\* slice(0, n)
SliceFirst(s, n) == IF Len(s) <= n THEN s ELSE SubSeq(s, 1, n)

IsSpace(c) == c \in {SP, NL}

Min(a, b) == IF a <= b THEN a ELSE b

Indices(s) == [i \in 1..Len(s) |-> i]

MinOf(S) == CHOOSE i \in S : \A j \in S : i <= j

MaxOf(S) == CHOOSE i \in S : \A j \in S : i >= j

\* String.prototype.trim
Trim(s) ==
  LET inked == {i \in 1..Len(s) : ~IsSpace(s[i])}
  IN IF inked = {} THEN <<>> ELSE SubSeq(s, MinOf(inked), MaxOf(inked))

\* String.prototype.split(sep): the pieces between the separators, always at
\* least one piece.
Split(s, sep) ==
  LET at == SelectSeq(Indices(s), LAMBDA i : s[i] = sep)
  IN [j \in 1..(Len(at) + 1) |->
        SubSeq(s, IF j = 1 THEN 1 ELSE at[j - 1] + 1,
                  IF j = Len(at) + 1 THEN Len(s) ELSE at[j] - 1)]

\* Array.prototype.join(sep) of a sequence of texts.
RECURSIVE Join(_, _)
Join(pieces, sep) ==
  IF pieces = <<>> THEN <<>>
  ELSE IF Len(pieces) = 1 THEN pieces[1]
  ELSE pieces[1] \o <<sep>> \o Join(Tail(pieces), sep)

\* Buffer.prototype.toString(): UTF-8 decoding of ONE chunk of bytes.  A lead
\* byte with its continuation byte is one character; a lead byte the chunk
\* ends after, and a continuation byte with no lead byte before it, each
\* decode to U+FFFD.
toString(bytes) ==
  LET paired(i) == bytes[i] = LEAD /\ i < Len(bytes) /\ bytes[i + 1] = CONT
      eaten(i)  == bytes[i] = CONT /\ i > 1 /\ bytes[i - 1] = LEAD
      kept      == SelectSeq(Indices(bytes), LAMBDA i : ~eaten(i))
  IN [j \in 1..Len(kept) |->
        IF paired(kept[j]) THEN EACUTE
        ELSE IF bytes[kept[j]] \in {LEAD, CONT} THEN REPLACEMENT
        ELSE bytes[kept[j]]]

\* ------------------------------------------------------------ stream-json
(***************************************************************************)
(* The worker's output format, one record per line.  A record is written   *)
(* with one symbol for each fixed piece of JSON syntax:                    *)
(*   A t }   {"type":"assistant","message":{"type":"message",              *)
(*            "content":[{"type":"text","text":"t"}]}}                     *)
(*   B t }   the same with content [{"type":"text","text":"t"}, null]      *)
(*   R t }   {"type":"result","result":"t"}                                *)
(*   S t }   {"type":"system","subtype":"t"}      (a record of another kind)*)
(*   N       null                                  (JSON, but no object)    *)
(* where t is any text over TextChars, in which the escape sequence ESCNL  *)
(* stands for a line feed.  Everything else is not JSON.                   *)
(***************************************************************************)
Openers == {"A", "B", "R", "S"}

TextChars == {"a", "b", SP, EACUTE, REPLACEMENT, ESCNL}

\* Whether JSON.parse(s) returns instead of throwing SyntaxError.
JsonOK(s) ==
  \/ s = <<"N">>
  \/ /\ Len(s) >= 2
     /\ s[1] \in Openers
     /\ Last(s) = "}"
     /\ \A i \in 2..(Len(s) - 1) : s[i] \in TextChars

\* The string a record carries, its escape sequences decoded.
JsonBody(s) ==
  [i \in 1..(Len(s) - 2) |-> IF s[i + 1] = ESCNL THEN NL ELSE s[i + 1]]

\* A content block that is JSON null: reading a property of it throws.
NullBlock == [type |-> "null", text |-> <<>>]

\* JSON.parse(s) for a text with JsonOK(s).
JsonParse(s) ==
  IF s = <<"N">>
    THEN [isNull |-> TRUE, type |-> "", content |-> <<>>, result |-> <<>>]
  ELSE IF s[1] = "A"
    THEN [isNull |-> FALSE, type |-> "assistant",
          content |-> <<[type |-> "text", text |-> JsonBody(s)]>>,
          result |-> <<>>]
  ELSE IF s[1] = "B"
    THEN [isNull |-> FALSE, type |-> "assistant",
          content |-> <<[type |-> "text", text |-> JsonBody(s)], NullBlock>>,
          result |-> <<>>]
  ELSE IF s[1] = "R"
    THEN [isNull |-> FALSE, type |-> "result", content |-> <<>>,
          result |-> JsonBody(s)]
  ELSE [isNull |-> FALSE, type |-> "system", content |-> <<>>, result |-> <<>>]

\* ------------------------------------------------------------ Task
VARIABLES
  tasks,    \* the registry: task id -> index in objs of the Task it maps to
  objs,     \* every Task object constructed so far, in construction order
  procs,    \* the child process spawned for each Task object
  timers,   \* indices of the Tasks a pending cancel_task kill timer closes over
  now,      \* the latest reading of the clock
  last      \* the handler that ran last and the kind of response it returned

vars == <<tasks, objs, procs, timers, now, last>>

\* new Date() returns a reading no earlier than the latest one.
Readings == now..MaxClock

\* new Task(id, ...) at clock reading at: the fields the handlers read or write.
Task(id, at) ==
  [ id           |-> id,
    status       |-> "starting",
    process      |-> None,
    stdout       |-> <<>>,
    stderr       |-> <<>>,
    exitCode     |-> None,
    startedAt    |-> at,
    completedAt  |-> None,
    progressLog  |-> <<>>,
    logged       |-> <<>>,    \* history: every entry addProgress was given
    resultText   |-> <<>>,
    stdoutBuffer |-> <<>> ]

addProgress_KeepsOldest(t, type, summary) ==
  LET entry  == [type |-> type, summary |-> summary]
      pushed == Append(t.progressLog, entry)
  IN [t EXCEPT !.progressLog = IF Len(pushed) > ProgressCap
                                THEN SliceFirst(pushed, ProgressCap)
                                ELSE pushed,
               !.logged      = Append(@, entry)]

\* Task.addProgress.  An entry's timestamp, and lastActivity which repeats it,
\* are read only to format a report and are left out.
addProgress(t, type, summary) ==
  LET entry  == [type |-> type, summary |-> summary]
      pushed == Append(t.progressLog, entry)
  IN [t EXCEPT !.progressLog = IF Len(pushed) > ProgressCap
                                THEN SliceLast(pushed, ProgressCap)
                                ELSE pushed,
               !.logged      = Append(@, entry)]

getLatestProgress_Oldest(t, count) == SliceFirst(t.progressLog, count)

\* Task.getLatestProgress
getLatestProgress(t, count) == SliceLast(t.progressLog, count)

\* ------------------------------------------------------------ event parser
\* parseProgressEvent, as the sequence of entries its caller adds (empty for
\* null).  It is called only with an event that is not null.
RECURSIVE blockProgress(_)
blockProgress(content) ==
  IF content = <<>> THEN <<>>
  ELSE LET block == Head(content)
           text  == Trim(block.text)
       IN (IF block.type = "text" /\ block.text # <<>> /\ text # <<>>
           THEN <<[type    |-> "thinking",
                   summary |-> SliceFirst(Split(text, NL)[1], FirstLineCap)]>>
           ELSE <<>>)
          \o blockProgress(Tail(content))

\* Whether reading block.type throws for some block of the content.
throwsOnBlock(content) == \E i \in DOMAIN content : content[i] = NullBlock

\* A throw inside parseProgressEvent is caught there and gives null.
parseProgressEvent(event) ==
  IF event.type = "assistant"
    THEN IF throwsOnBlock(event.content) THEN <<>> ELSE blockProgress(event.content)
  ELSE IF event.type = "result"
    THEN <<[type |-> "result", summary |-> <<"Agent finished processing">>]>>
  ELSE <<>>

RECURSIVE addEntries(_, _)
addEntries(t, entries) ==
  IF entries = <<>> THEN t
  ELSE addEntries(addProgress(t, Head(entries).type, Head(entries).summary),
                  Tail(entries))

\* The text blocks of an assistant message appended to resultText, up to the
\* block the loop throws on.
RECURSIVE accumulateText(_, _)
accumulateText(t, content) ==
  IF content = <<>> \/ Head(content) = NullBlock THEN t
  ELSE LET block == Head(content)
       IN accumulateText(
            IF block.type = "text" /\ block.text # <<>>
            THEN [t EXCEPT !.resultText = @ \o block.text]
            ELSE t,
            Tail(content))

seedResult_Always(t, event) ==
  IF event.type = "result" /\ event.result # <<>>
  THEN [t EXCEPT !.resultText = event.result]
  ELSE t

\* The result payload of a result event, taken only while resultText is empty.
seedResult(t, event) ==
  IF event.type = "result" /\ event.result # <<>> /\ t.resultText = <<>>
  THEN [t EXCEPT !.resultText = event.result]
  ELSE t

\* One line of processStreamData's loop: the body of its for statement.
processLine(t, line) ==
  LET trimmed == Trim(line)
  IN IF trimmed = <<>> THEN t
     ELSE IF ~JsonOK(trimmed) \/ JsonParse(trimmed).isNull
       \* SyntaxError from JSON.parse, or TypeError from null.type: the catch
       THEN [t EXCEPT !.stdout = @ \o trimmed \o <<NL>>]
     ELSE LET event == JsonParse(trimmed)
              t1    == IF event.type = "assistant"
                       THEN accumulateText(t, event.content) ELSE t
              t2    == seedResult(t1, event)
          IN IF throwsOnBlock(event.content)
             \* TypeError from block.type in the loop over the content: the catch
             THEN [t1 EXCEPT !.stdout = @ \o trimmed \o <<NL>>]
             ELSE addEntries(t2, parseProgressEvent(event))

RECURSIVE processLines_StopsAtError(_, _)
processLines_StopsAtError(t, lines) ==
  IF lines = <<>> THEN t
  ELSE IF Trim(Head(lines)) # <<>> /\ ~JsonOK(Trim(Head(lines)))
    THEN processLine(t, Head(lines))
  ELSE processLines_StopsAtError(processLine(t, Head(lines)), Tail(lines))

\* processStreamData's for loop over the lines, in order.
RECURSIVE processLines(_, _)
processLines(t, lines) ==
  IF lines = <<>> THEN t
  ELSE processLines(processLine(t, Head(lines)), Tail(lines))

\* processStreamData(task, rawData)
processStreamData(t, rawData) ==
  LET lines == Split(t.stdoutBuffer \o rawData, NL)
  IN processLines([t EXCEPT !.stdoutBuffer = Last(lines)], Front(lines))


\* ------------------------------------------------------------ child process
\* What the engine holds of each spawned child process:
\*   state  "alive"     running, its callbacks may fire
\*          "spawnfail" the spawn failed, the 'error' callback is pending
\*          "errored"   'error' has fired; 'close' may or may not follow
\*          "closed"    'close' has fired
\*   out    the bytes the worker has still to write to its stdout
\*   err    the bytes the worker has still to write to its stderr
\*   kills  the signals kill() was called with on this handle
\*   fail   why the spawn failed ("" when it did not)
\*   sent   history: the bytes the stdout callback has been given
\*   heard  history: the text the stdout callback has passed on
spawn(fail, out, err) ==
  [state |-> IF fail = "" THEN "alive" ELSE "spawnfail",
   fail |-> fail, out |-> out, err |-> err, kills |-> {},
   sent |-> <<>>, heard |-> <<>>]

kill(p, signal) == [p EXCEPT !.kills = @ \cup {signal}]

Digit(d) == <<"0", "1", "2", "3", "4", "5", "6", "7", "8", "9">>[d + 1]

\* String(n) for an integer n.
RECURSIVE NatStr(_)
NatStr(n) == IF n < 10 THEN <<Digit(n)>> ELSE NatStr(n \div 10) \o <<Digit(n % 10)>>

NumStr(n) == IF n < 0 THEN <<"-">> \o NatStr(0 - n) ELSE NatStr(n)

\* `${code}` for the close callback's code: a number or null.
CodeStr(code) == IF code = None THEN <<"n", "u", "l", "l">> ELSE NumStr(code[1])

RecentCount == 5

StderrTail == 10

RECURSIVE progressContext(_)
progressContext(entries) ==
  IF entries = <<>> THEN <<>>
  ELSE <<(<<"  -> ">> \o Head(entries).summary)>> \o progressContext(Tail(entries))

\* The failure summary the close callback builds for a non-zero code.
failMsg(t, code) ==
  LET recentProgress == getLatestProgress(t, RecentCount)
      stderrLines    == Split(Trim(t.stderr), NL)
  IN <<"Task failed (exit code: ">> \o CodeStr(code) \o <<")">>
     \o (IF Len(recentProgress) > 0
         THEN <<NL, "Last activity before failure:", NL>>
              \o Join(progressContext(recentProgress), NL)
         ELSE <<>>)
     \o (IF Trim(t.stderr) # <<>>
         THEN <<NL, "Stderr (last ">> \o NumStr(Min(Len(stderrLines), StderrTail))
              \o <<" lines):", NL>>
              \o Join(SliceLast(stderrLines, StderrTail), NL)
         ELSE <<>>)

\* The close callback's flush of the reassembly buffer.
flush(t) ==
  LET trimmed == Trim(t.stdoutBuffer)
  IN IF trimmed = <<>> THEN t
     ELSE IF ~JsonOK(trimmed) \/ JsonParse(trimmed).isNull
       \* parseProgressEvent(null) returns null; null.type then throws
       THEN [t EXCEPT !.stdout = @ \o t.stdoutBuffer, !.stdoutBuffer = <<>>]
     ELSE LET event == JsonParse(trimmed)
              t1    == addEntries(t, parseProgressEvent(event))
              t2    == IF event.type = "assistant"
                       THEN accumulateText(t1, event.content) ELSE t1
          IN IF throwsOnBlock(event.content)
             THEN [t2 EXCEPT !.stdout = @ \o t.stdoutBuffer, !.stdoutBuffer = <<>>]
             ELSE [t2 EXCEPT !.stdoutBuffer = <<>>]

onClose_NoExitCode(t, code, at) ==
  LET t1 == flush(t)
      t2 == [t1 EXCEPT !.status      = IF code = Some(0) THEN "completed" ELSE "failed",
                       !.completedAt = Some(at),
                       !.process     = None]
  IN IF code = Some(0)
     THEN addProgress(t2, "system", <<"Task completed">>)
     ELSE addProgress(t2, "system", failMsg(t2, code))

\* proc.on("close", (code) => ...) at clock reading at
onClose(t, code, at) ==
  LET t1 == flush(t)
      t2 == [t1 EXCEPT !.exitCode    = code,
                       !.status      = IF code = Some(0) THEN "completed" ELSE "failed",
                       !.completedAt = Some(at),
                       !.process     = None]
  IN IF code = Some(0)
     THEN addProgress(t2, "system", <<"Task completed">>)
     ELSE addProgress(t2, "system", failMsg(t2, code))

ErrCodes == {"ENOENT", "EACCES", "EMFILE", "EOTHER"}

guidance(errCode) ==
  CASE errCode = "ENOENT" -> <<"Claude Code CLI not found.">>
    [] errCode = "EACCES" -> <<"Permission denied when running 'claude'.">>
    [] errCode = "EMFILE" -> <<"Too many open files.">>
    [] OTHER              -> <<"Process error: ", errCode>>

onError_NoStamp(t, errCode, at) ==
  LET t1 == [t EXCEPT !.status  = "failed",
                      !.process = None,
                      !.stderr  = @ \o <<NL>> \o guidance(errCode)]
  IN addProgress(t1, "system", <<"X ">> \o guidance(errCode))

onError_KeepsHandle(t, errCode, at) ==
  LET t1 == [t EXCEPT !.status      = "failed",
                      !.completedAt = Some(at),
                      !.stderr      = @ \o <<NL>> \o guidance(errCode)]
  IN addProgress(t1, "system", <<"X ">> \o guidance(errCode))

\* proc.on("error", (err) => ...) at clock reading at
onError(t, errCode, at) ==
  LET t1 == [t EXCEPT !.status      = "failed",
                      !.completedAt = Some(at),
                      !.process     = None,
                      !.stderr      = @ \o <<NL>> \o guidance(errCode)]
  IN addProgress(t1, "system", <<"X ">> \o guidance(errCode))

\* The code 'close' reports after a failed spawn: the negated errno.
Errno(errCode) ==
  CASE errCode = "ENOENT" -> 0 - 2
    [] errCode = "EACCES" -> 0 - 13
    [] errCode = "EMFILE" -> 0 - 24
    [] OTHER              -> 0 - 1


\* ------------------------------------------------------------ engine
Terminal == {"completed", "failed", "cancelled"}

Registered == {tasks[id] : id \in DOMAIN tasks}

\* getActiveTasks(), as the indices of the Tasks it returns.
getActiveTasks == {k \in Registered : objs[k].status = "running"}

Response(op, kind, value) == [op |-> op, kind |-> kind, value |-> value]

\* tasks.set(id, k)
MapSet(m, id, k) == [x \in DOMAIN m \cup {id} |-> IF x = id THEN k ELSE m[x]]

\* tasks with the keys in gone deleted
MapDelete(m, gone) == [x \in DOMAIN m \ gone |-> m[x]]

\* randomUUID().split("-")[0] draws any of 2^32 identifiers.  Identifiers are
\* only ever compared for equality, so the values it can return are named
\* here by what they are equal to: the identifier of a Task constructed
\* before, or a value never drawn before.
FreshId == Len(objs) + 1

UsedIds == {objs[k].id : k \in DOMAIN objs}

spawnClaudeAgent_StaysStarting(t, k) ==
  addProgress([t EXCEPT !.process = Some(k)], "system", <<"Agent started">>)

\* spawnClaudeAgent(task), for the Task about to become objs[k], up to the
\* registration of the callbacks.
spawnClaudeAgent(t, k) ==
  addProgress([t EXCEPT !.process = Some(k), !.status = "running"],
              "system", <<"Agent started">>)

\* dispatch_task's admission test.
AtCapacity_Never == FALSE

AtCapacity_OffByOne == Cardinality(getActiveTasks) > MAX_CONCURRENT_TASKS

AtCapacity == Cardinality(getActiveTasks) >= MAX_CONCURRENT_TASKS

\* case "dispatch_task".  limit bounds the Tasks a run constructs; ids, fails,
\* outs and errs are what the environment may answer: the identifier drawn,
\* whether and why the spawn fails, and what the worker will write.
dispatch_task(limit, ids, fails, outs, errs) ==
  \E dirExists \in BOOLEAN :
    IF AtCapacity
    THEN /\ last' = Response("dispatch_task", "CapacityExceeded", 0)
         /\ UNCHANGED <<tasks, objs, procs, timers, now>>
    ELSE IF ~dirExists
    THEN /\ last' = Response("dispatch_task", "InvalidTarget", 0)
         /\ UNCHANGED <<tasks, objs, procs, timers, now>>
    ELSE \E id \in ids, fail \in fails, out \in outs, err \in errs, at \in Readings :
         /\ Len(objs) < limit
         /\ LET k == Len(objs) + 1
            IN /\ tasks' = MapSet(tasks, id, k)
               /\ objs' = Append(objs, spawnClaudeAgent(Task(id, at), k))
               /\ procs' = Append(procs, spawn(fail, out, err))
         /\ now' = at
         /\ last' = Response("dispatch_task", "ok", id)
         /\ UNCHANGED timers

\* cancel_task's test of the status, and the two fields it writes.
cancellable_Always(task) == TRUE

cancellable(task) == task.status = "running" \/ task.status = "starting"

cancelled(task, at) ==
  [task EXCEPT !.status = "cancelled", !.completedAt = Some(at)]

\* case "cancel_task"
cancel_task(ids) ==
  \E id \in ids :
    IF id \notin DOMAIN tasks
    THEN /\ last' = Response("cancel_task", "NotFound", id)
         /\ UNCHANGED <<tasks, objs, procs, timers, now>>
    ELSE LET k == tasks[id]
             task == objs[k]
         IN IF ~cancellable(task)
            THEN /\ last' = Response("cancel_task", "AlreadyTerminal", id)
                 /\ UNCHANGED <<tasks, objs, procs, timers, now>>
            ELSE \E at \in Readings :
                 /\ IF task.process # None
                    THEN /\ procs' = [procs EXCEPT ![k] = kill(@, "SIGTERM")]
                         /\ timers' = timers \cup {k}
                    ELSE UNCHANGED <<procs, timers>>
                 /\ objs' = [objs EXCEPT ![k] = cancelled(@, at)]
                 /\ now' = at
                 /\ last' = Response("cancel_task", "ok", id)
                 /\ UNCHANGED tasks

killTimer_Unconditional ==
  \E k \in timers :
    /\ timers' = timers \ {k}
    /\ procs' = [procs EXCEPT ![k] = kill(@, "SIGKILL")]
    /\ last' = Response("callback", "none", 0)
    /\ UNCHANGED <<tasks, objs, now>>

killTimer_NoKill ==
  \E k \in timers :
    /\ timers' = timers \ {k}
    /\ last' = Response("callback", "none", 0)
    /\ UNCHANGED <<tasks, objs, procs, now>>

\* The setTimeout callback of cancel_task, 5 s after the cancel.
killTimer ==
  \E k \in timers :
    /\ timers' = timers \ {k}
    /\ IF objs[k].process # None
       THEN procs' = [procs EXCEPT ![k] = kill(@, "SIGKILL")]
       ELSE UNCHANGED procs
    /\ last' = Response("callback", "none", 0)
    /\ UNCHANGED <<tasks, objs, now>>

purge_tasks_DropsRunning ==
  \E includeRunning \in BOOLEAN :
    /\ tasks' = <<>>
    /\ last' = Response("purge_tasks",
                        IF includeRunning THEN "include_running" ELSE "ok",
                        Cardinality(DOMAIN tasks))
    /\ UNCHANGED <<objs, procs, timers, now>>

\* case "purge_tasks".  The response is the same text for both values of
\* include_running; last records which of the two the request carried.
purge_tasks ==
  \E includeRunning \in BOOLEAN :
    LET live   == {id \in DOMAIN tasks :
                     objs[tasks[id]].status \in {"running", "starting"}}
        gone   == {id \in DOMAIN tasks : id \notin live \/ includeRunning}
        killed == {tasks[id] : id \in {i \in live \cap gone :
                                         objs[tasks[i]].process # None}}
    IN /\ tasks' = MapDelete(tasks, gone)
       /\ procs' = [k \in DOMAIN procs |->
                      IF k \in killed THEN kill(procs[k], "SIGTERM") ELSE procs[k]]
       /\ last' = Response("purge_tasks",
                           IF includeRunning THEN "include_running" ELSE "ok",
                           Cardinality(gone))
       /\ UNCHANGED <<objs, timers, now>>

\* check_tasks shows this many recent entries of a running task.
ViewRecent == 3

StatusFilters == {"all", "running", "completed", "failed"}

\* case "check_tasks".  The report, without the run times and idle times it
\* formats from the clock: the tasks listed, what it shows of each, and the
\* three counters of its heading.
check_tasks ==
  \E filter \in StatusFilters :
    LET taskList == {k \in Registered : filter = "all" \/ objs[k].status = filter}
        count(st) == Cardinality({k \in taskList : objs[k].status = st})
        entry(k) ==
          [id     |-> objs[k].id,
           status |-> objs[k].status,
           recent |-> IF objs[k].status = "running"
                      THEN getLatestProgress(objs[k], ViewRecent)
                      ELSE <<>>]
    IN /\ last' = IF taskList = {}
                  THEN Response("check_tasks", "none", [filter |-> filter])
                  ELSE Response("check_tasks", "report",
                                [filter    |-> filter,
                                 summary   |-> [k \in taskList |-> entry(k)],
                                 running   |-> count("running"),
                                 completed |-> count("completed"),
                                 failed    |-> count("failed")])
       /\ UNCHANGED <<tasks, objs, procs, timers, now>>

NoOutputYet == <<"(no output yet)">>

tailOutput_FromTop(output, tail_lines) ==
  IF tail_lines > 0
  THEN Join(SliceFirst(Split(output, NL), tail_lines), NL)
  ELSE output

\* get_task_output's cut of the output to its last tail_lines lines.
tailOutput(output, tail_lines) ==
  IF tail_lines > 0
  THEN Join(SliceLast(Split(output, NL), tail_lines), NL)
  ELSE output

get_task_output_Drains(ids) ==
  \E id \in ids, tail_lines \in 0..MaxTail :
    /\ id \in DOMAIN tasks
    /\ last' = Response("get_task_output", "ok",
                        [id |-> id, tail_lines |-> tail_lines])
    /\ objs' = [objs EXCEPT ![tasks[id]].resultText = <<>>]
    /\ UNCHANGED <<tasks, procs, timers, now>>

\* case "get_task_output"; tail_lines 0 stands for a request without one.
get_task_output(ids) ==
  \E id \in ids, tail_lines \in 0..MaxTail :
    /\ IF id \notin DOMAIN tasks
       THEN last' = Response("get_task_output", "NotFound",
                             [id |-> id, tail_lines |-> tail_lines])
       ELSE LET task   == objs[tasks[id]]
                output == IF task.resultText # <<>> THEN task.resultText
                          ELSE IF task.stdout # <<>> THEN task.stdout
                          ELSE NoOutputYet
            IN last' = Response("get_task_output", "ok",
                                [id         |-> id,
                                 tail_lines |-> tail_lines,
                                 status     |-> task.status,
                                 timeline   |-> task.progressLog,
                                 output     |-> tailOutput(output, tail_lines),
                                 errOutput  |-> task.stderr])
    /\ UNCHANGED <<tasks, objs, procs, timers, now>>

\* proc.stdout.on("data", ...): the next bytes of the worker's output arrive.
stdoutData ==
  \E k \in DOMAIN procs :
    /\ procs[k].state = "alive"
    /\ \E n \in 1..Min(Len(procs[k].out), MaxChunk) :
         /\ objs' = [objs EXCEPT ![k] =
                       processStreamData(@, toString(SubSeq(procs[k].out, 1, n)))]
         /\ procs' = [procs EXCEPT
                        ![k].out   = SubSeq(@, n + 1, Len(@)),
                        ![k].sent  = @ \o SubSeq(procs[k].out, 1, n),
                        ![k].heard = @ \o toString(SubSeq(procs[k].out, 1, n))]
    /\ last' = Response("callback", "none", 0)
    /\ UNCHANGED <<tasks, timers, now>>

stderrData_SharedTask ==
  \E k \in DOMAIN procs :
    /\ procs[k].state = "alive"
    /\ \E n \in 1..Min(Len(procs[k].err), MaxChunk) :
         /\ objs' = [objs EXCEPT ![Len(objs)].stderr =
                       @ \o toString(SubSeq(procs[k].err, 1, n))]
         /\ procs' = [procs EXCEPT ![k].err = SubSeq(@, n + 1, Len(@))]
    /\ last' = Response("callback", "none", 0)
    /\ UNCHANGED <<tasks, timers, now>>

\* proc.stderr.on("data", ...)
stderrData ==
  \E k \in DOMAIN procs :
    /\ procs[k].state = "alive"
    /\ \E n \in 1..Min(Len(procs[k].err), MaxChunk) :
         /\ objs' = [objs EXCEPT ![k].stderr =
                       @ \o toString(SubSeq(procs[k].err, 1, n))]
         /\ procs' = [procs EXCEPT ![k].err = SubSeq(@, n + 1, Len(@))]
    /\ last' = Response("callback", "none", 0)
    /\ UNCHANGED <<tasks, timers, now>>

\* The codes 'close' may report for a process that was spawned: an exit
\* status, or null when a signal ended it.
ExitCodes(p) == {Some(0), Some(1)} \cup (IF p.kills # {} THEN {None} ELSE {})

\* proc.on("close", ...) fires: the worker has ended, whatever it had still
\* to write is lost.
closeEvent ==
  \E k \in DOMAIN procs, at \in Readings :
    /\ \/ /\ procs[k].state = "alive"
          /\ \E code \in ExitCodes(procs[k]) :
               objs' = [objs EXCEPT ![k] = onClose(@, code, at)]
       \/ /\ procs[k].state = "errored"
          /\ objs' = [objs EXCEPT ![k] = onClose(@, Some(Errno(procs[k].fail)), at)]
    /\ procs' = [procs EXCEPT ![k].state = "closed", ![k].out = <<>>, ![k].err = <<>>]
    /\ now' = at
    /\ last' = Response("callback", "none", 0)
    /\ UNCHANGED <<tasks, timers>>

\* proc.on("error", ...) fires for a spawn that failed.
errorEvent ==
  \E k \in DOMAIN procs, at \in Readings :
    /\ procs[k].state = "spawnfail"
    /\ objs' = [objs EXCEPT ![k] = onError(@, procs[k].fail, at)]
    /\ procs' = [procs EXCEPT ![k].state = "errored"]
    /\ now' = at
    /\ last' = Response("callback", "none", 0)
    /\ UNCHANGED <<tasks, timers>>

\* ------------------------------------------------------------ specifications
Init ==
  /\ tasks = <<>>
  /\ objs = <<>>
  /\ procs = <<>>
  /\ timers = {}
  /\ now = 0
  /\ last = Response("start", "none", 0)

\* What the environment of the engine specification may answer: a spawn
\* that succeeds or fails, a worker that writes one unterminated line.
EngineOuts == { <<"N">> }

EngineErrs == { <<>> }

EngineFails == {"", "ENOENT"}

Next ==
  \/ dispatch_task(MaxTasks, UsedIds \cup {FreshId}, EngineFails, EngineOuts, EngineErrs)
  \/ cancel_task(UsedIds \cup {FreshId})
  \/ purge_tasks
  \/ killTimer
  \/ stdoutData
  \/ closeEvent
  \/ errorEvent

\* The engine: every tool call and every callback, one Task.
Spec == Init /\ [][Next]_vars

PairNext ==
  \/ dispatch_task(MaxPairTasks, UsedIds \cup {FreshId}, EngineFails, EngineOuts, EngineErrs)
  \/ cancel_task(UsedIds \cup {FreshId})
  \/ purge_tasks
  \/ killTimer
  \/ stdoutData
  \/ closeEvent
  \/ errorEvent

\* The engine with two Tasks.
SpecPair == Init /\ [][PairNext]_vars

AdmInit ==
  /\ tasks = <<>>
  /\ objs = <<>>
  /\ procs = <<>>
  /\ timers = {}
  /\ now = MaxClock
  /\ last = Response("start", "none", 0)

AdmNext ==
  \/ dispatch_task(MaxAdmTasks, {FreshId}, {""}, {<<>>}, {<<>>})
  \/ cancel_task(UsedIds)
  \/ purge_tasks

\* Admission: the tool calls that fill and empty the registry, while the
\* workers, silent and each with an identifier of its own, keep running.
SpecAdmission == AdmInit /\ [][AdmNext]_vars

\* One record of the long stream: a message whose text depends on its place.
LongRecord(i) == <<"A", IF i % 3 = 0 THEN "a" ELSE "b", "}", NL>>

\* The first n records of the long stream, four bytes each.
LongStream(n) ==
  [j \in 1..(4 * n) |-> LongRecord((j + 3) \div 4)[((j - 1) % 4) + 1]]

\* n lines of error text, the last one unterminated.
ErrorLines(n) == [j \in 1..(2 * n - 1) |-> IF j % 2 = 0 THEN NL ELSE "x"]

\* What the worker of the stream specification writes to stdout and stderr.
StreamFeeds ==
  { <<LongStream(MaxRecords), <<>>>>,
    <<LongStream(RecentCount), ErrorLines(StderrTail + 1)>>,
    << <<"A", "a", "}", NL, "R", "b", "}", NL>>, <<>> >>,
    << <<"R", "b", "}", NL, "A", "a", "}", NL>>, <<>> >>,
    << <<"R", "b", "}", NL>>, <<"x", NL, "y">> >>,
    << <<"A", LEAD, CONT, "}", NL>>, <<>> >>,
    << <<"x", NL, SP, "N", NL, NL, "A", "a", "}">>, <<"x">> >>,
    << <<"S", "a", "}", NL, SP, "R", "b", "}", SP>>, <<>> >>,
    << <<"x", NL, "A", "a", "}", NL, "y", NL, "R", "b", "}", NL>>, <<>> >>,
    << <<"B", "a", "}", NL, "B", "b", "}">>, <<>> >> }

\* The state after dispatch_task has spawned one worker.
StreamInit ==
  \E feed \in StreamFeeds :
    /\ tasks = MapSet(<<>>, 1, 1)
    /\ objs = <<spawnClaudeAgent(Task(1, 0), 1)>>
    /\ procs = <<spawn("", feed[1], feed[2])>>
    /\ timers = {}
    /\ now = 0
    /\ last = Response("dispatch_task", "ok", 1)

StreamNext ==
  \/ stdoutData
  \/ stderrData
  \/ closeEvent

\* The stream: one worker's output arriving in chunks of every size.
SpecStream == StreamInit /\ [][StreamNext]_vars

\* What fairness the cancellation specification assumes of the platform: a
\* pending timer fires, and a worker sent SIGKILL ends and is reaped.
forcedClose ==
  \E k \in DOMAIN procs :
    /\ procs[k].state = "alive"
    /\ "SIGKILL" \in procs[k].kills
    /\ closeEvent
    /\ procs'[k].state = "closed"

CancelNext ==
  \/ dispatch_task(MaxCancelTasks, {FreshId}, {""}, {<<>>}, {<<>>})
  \/ cancel_task(UsedIds)
  \/ purge_tasks
  \/ killTimer
  \/ closeEvent

\* Cancellation: workers that may ignore SIGTERM for ever, under timers that
\* fire and a SIGKILL that kills.
SpecCancel ==
  Init /\ [][CancelNext]_vars /\ WF_vars(killTimer) /\ WF_vars(forcedClose)

\* What the worker of the view specification writes: a message of five lines,
\* two lines that are no records, or nothing.
ViewOuts ==
  { <<"A", "a", ESCNL, "b", ESCNL, "a", ESCNL, "b", ESCNL, "a", "}", NL>>,
    <<"a", NL, "b", NL>>,
    <<>> }

ViewNext ==
  \/ dispatch_task(MaxTasks, {FreshId}, {""}, ViewOuts, {<<>>})
  \/ check_tasks
  \/ get_task_output(UsedIds \cup {FreshId})
  \/ cancel_task({FreshId})
  \/ stdoutData
  \/ closeEvent

\* The views: the reports of check_tasks and get_task_output, among the
\* tool calls and callbacks that change what they show.
SpecView == AdmInit /\ [][ViewNext]_vars

LaunchNext ==
  \/ dispatch_task(MaxTasks, {FreshId}, ErrCodes \cup {""}, {<<>>}, {<<>>})
  \/ cancel_task(UsedIds)
  \/ killTimer
  \/ errorEvent
  \/ closeEvent

\* Launch: spawns that fail for each of the reasons the error callback
\* tells apart, among cancels and closes.
SpecLaunch == Init /\ [][LaunchNext]_vars

\* The state after two dispatch_task calls, the clock at its last reading:
\* the first worker has a record and a line of error text to write, the
\* launch of the second may have failed.
CallbackInit ==
  \E fail \in EngineFails :
    /\ tasks = MapSet(MapSet(<<>>, 1, 1), 2, 2)
    /\ objs = <<spawnClaudeAgent(Task(1, MaxClock), 1),
                spawnClaudeAgent(Task(2, MaxClock), 2)>>
    /\ procs = <<spawn("", <<"A", "a", "}", NL>>, <<"x">>), spawn(fail, <<"N">>, <<>>)>>
    /\ timers = {}
    /\ now = MaxClock
    /\ last = Response("dispatch_task", "ok", 2)

CallbackNext ==
  \/ cancel_task(UsedIds)
  \/ purge_tasks
  \/ killTimer
  \/ stdoutData
  \/ stderrData
  \/ closeEvent
  \/ errorEvent

\* The callbacks of two workers, interleaved with cancel and purge.
SpecCallbacks == CallbackInit /\ [][CallbackNext]_vars

\* ------------------------------------------------------------ claims
Alive == {k \in DOMAIN procs : procs[k].state = "alive"}

\* C1: once a task's status is completed, failed or cancelled, no tool call
\* and no callback changes it again.
C1_TerminalStatusIsFinal ==
  [][\A k \in DOMAIN objs :
       objs[k].status \in Terminal => objs'[k].status = objs[k].status]_vars

\* C2: for every task ever created, completedAt is set if and only if the
\* status is completed, failed or cancelled.
C2_CompletedAtIffTerminal ==
  \A k \in DOMAIN objs :
    (objs[k].completedAt # None) <=> (objs[k].status \in Terminal)

C2_TerminalStamped ==
  \E k \in DOMAIN objs :
    objs[k].status = "failed" /\ objs[k].completedAt # None

\* C3: a dispatch request made while at least MAX_CONCURRENT_TASKS registered
\* tasks are running is refused and changes nothing: no task is added or
\* modified, no process is spawned.
C3_RefusedAtCapacity ==
  [][(last'.op = "dispatch_task"
      /\ Cardinality(getActiveTasks) >= MAX_CONCURRENT_TASKS)
     => (/\ last'.kind = "CapacityExceeded"
         /\ UNCHANGED <<tasks, objs, procs, timers, now>>)]_vars

C3_SixthDispatchRefused ==
  /\ last = Response("dispatch_task", "CapacityExceeded", 0)
  /\ Cardinality(getActiveTasks) = MAX_CONCURRENT_TASKS
  /\ Len(objs) = MAX_CONCURRENT_TASKS

\* C4: never are more than MAX_CONCURRENT_TASKS worker processes alive at
\* the same time.
C4_AtMostFiveAlive == Cardinality(Alive) <= MAX_CONCURRENT_TASKS

\* C5: the number of registered tasks whose status is "running" never
\* exceeds MAX_CONCURRENT_TASKS.
C5_RunningWithinCeiling == Cardinality(getActiveTasks) <= MAX_CONCURRENT_TASKS

C5_CeilingReached ==
  /\ Cardinality(getActiveTasks) = MAX_CONCURRENT_TASKS
  /\ last = Response("dispatch_task", "ok", MAX_CONCURRENT_TASKS)

\* C6: a successful dispatch never allocates an identifier that is already
\* registered, so it leaves every registered identifier mapped to the task it
\* was mapped to.
C6_DispatchAllocatesFreshId ==
  [][(last'.op = "dispatch_task" /\ last'.kind = "ok" /\ Len(objs') > Len(objs))
     => (/\ last'.value \notin DOMAIN tasks
         /\ \A id \in DOMAIN tasks : tasks'[id] = tasks[id])]_vars

\* C7: the progress history never holds more than ProgressCap entries, and it
\* is always the most recently inserted entries (all of them while there are
\* at most ProgressCap, else the last ProgressCap) in insertion order.
C7_ProgressHistoryBounded ==
  \A k \in DOMAIN objs :
    /\ Len(objs[k].progressLog) <= ProgressCap
    /\ objs[k].progressLog = SliceLast(objs[k].logged, ProgressCap)

C7_OldestEvicted ==
  \E k \in DOMAIN objs : Len(objs[k].logged) > ProgressCap

\* What the same bytes give when they arrive as one chunk and the worker
\* then closes with the same code at the same time.
C8_SingleChunk(k) ==
  LET t     == objs[k]
      start == [spawnClaudeAgent(Task(t.id, t.startedAt), k)
                  EXCEPT !.stderr = t.stderr]
      fed   == IF procs[k].sent = <<>> THEN start
               ELSE processStreamData(start, toString(procs[k].sent))
  IN onClose(fed, t.exitCode, t.completedAt[1])

\* C8: however a worker's output is cut into chunks, once the worker has
\* closed the result text, the raw fallback output and the progress entries
\* are those the same output gives as a single chunk.
C8_ChunkBoundaryIndependence ==
  \A k \in DOMAIN objs :
    (procs[k].state = "closed" /\ Len(procs[k].sent) <= MaxChunk)
    => LET one == C8_SingleChunk(k)
       IN /\ objs[k].resultText = one.resultText
          /\ objs[k].stdout = one.stdout
          /\ objs[k].logged = one.logged

\* The result text the complete lines of a stream call for: message text
\* appended in order, a result payload taken only while nothing is there.
RECURSIVE C9_Assembled(_, _)
C9_Assembled(lines, acc) ==
  IF lines = <<>> THEN acc
  ELSE LET line  == Trim(Head(lines))
           event == JsonParse(line)
       IN C9_Assembled(Tail(lines),
            IF line = <<>> \/ ~JsonOK(line) THEN acc
            ELSE IF event.type = "assistant" THEN acc \o event.content[1].text
            ELSE IF event.type = "result" /\ acc = <<>> THEN event.result
            ELSE acc)

\* C9: while the worker runs, the result text is the message texts received
\* so far in stream order, after the payload of a result record that came
\* while the result text was empty; a result record that comes later changes
\* nothing.  Message "a" then result "b" gives "a"; result "b" alone gives "b".
C9_ResultTextAssembly ==
  \A k \in Alive :
    /\ objs[k].resultText = C9_Assembled(Front(Split(procs[k].heard, NL)), <<>>)
    /\ procs[k].heard = <<"A", "a", "}", NL, "R", "b", "}", NL>>
         => objs[k].resultText = <<"a">>
    /\ procs[k].heard = <<"R", "b", "}", NL>> => objs[k].resultText = <<"b">>

C9_MessageThenResult ==
  \E k \in Alive :
    /\ procs[k].heard = <<"A", "a", "}", NL, "R", "b", "}", NL>>
    /\ objs[k].resultText = <<"a">>

\* C10: cancel on a registered task whose status is completed, failed or
\* cancelled is refused as already terminal and changes nothing: no field of
\* any task, no signal, no kill timer.
C10_CancelTerminalRefused ==
  [][\A id \in DOMAIN tasks :
       (last'.op = "cancel_task" /\ last'.value = id
        /\ objs[tasks[id]].status \in Terminal)
       => (/\ last'.kind = "AlreadyTerminal"
           /\ UNCHANGED <<tasks, objs, procs, timers, now>>)]_vars

C10_CancelOfCompletedRefused ==
  \E id \in DOMAIN tasks :
    /\ last = Response("cancel_task", "AlreadyTerminal", id)
    /\ objs[tasks[id]].status = "completed"
    /\ objs[tasks[id]].completedAt # None

\* C11: after cancel_task is accepted for a task whose worker is alive, the
\* worker eventually ends, even when it ignores SIGTERM: the timer sends
\* SIGKILL.
C11_CancelledWorkerEnds ==
  \A k \in 1..MaxCancelTasks :
    (/\ last.op = "cancel_task" /\ last.kind = "ok"
     /\ last.value \in DOMAIN tasks /\ tasks[last.value] = k
     /\ procs[k].state = "alive")
    ~> (k \in DOMAIN procs /\ procs[k].state = "closed")

C11_EndedBySigkill ==
  \E k \in DOMAIN procs :
    /\ procs[k].state = "closed"
    /\ procs[k].kills = {"SIGTERM", "SIGKILL"}
    /\ objs[k].exitCode = None
    /\ k \notin timers

\* The text of a failure entry: the code, then the summaries given, one to a
\* line, then the last StderrTail lines of the error text when there is any.
RECURSIVE C12_Listed(_, _)
C12_Listed(texts, lead) ==
  IF texts = <<>> THEN <<>>
  ELSE <<NL>> \o lead \o Head(texts) \o C12_Listed(Tail(texts), lead)

C12_Diagnostic(code, recent, stderr) ==
  LET lines == Split(Trim(stderr), NL)
      tail  == SubSeq(lines, Len(lines) - Min(Len(lines), StderrTail) + 1, Len(lines))
  IN <<"Task failed (exit code: ">> \o NumStr(code) \o <<")">>
     \o (IF recent = <<>> THEN <<>>
         ELSE <<NL, "Last activity before failure:">>
              \o C12_Listed([i \in DOMAIN recent |-> recent[i].summary], <<"  -> ">>))
     \o (IF Trim(stderr) = <<>> THEN <<>>
         ELSE <<NL, "Stderr (last ">> \o NumStr(Len(tail)) \o <<" lines):">>
              \o C12_Listed(tail, <<>>))

\* C12: when the close callback reports a non-zero exit code, the task is
\* failed with that code recorded, and the entries the callback appends end
\* with exactly one system entry, whose text gives the code, the summaries of
\* the (at most RecentCount) entries just before it in order, and the last
\* StderrTail lines of the error text when there is any.
C12_FailureDiagnostic ==
  [][\A k \in DOMAIN objs :
       (/\ procs[k].state = "alive" /\ procs'[k].state = "closed"
        /\ objs'[k].exitCode \notin {None, Some(0)})
       => LET was   == objs[k].logged
              is    == objs'[k].logged
              added == SubSeq(is, Len(was) + 1, Len(is))
              prior == Front(is)
          IN /\ objs'[k].status = "failed"
             /\ Len(is) > Len(was) /\ SubSeq(is, 1, Len(was)) = was
             /\ Len(SelectSeq(added, LAMBDA e : e.type = "system")) = 1
             /\ Last(is) = [type    |-> "system",
                            summary |-> C12_Diagnostic(
                                          objs'[k].exitCode[1],
                                          SubSeq(prior, Len(prior) - Min(Len(prior), RecentCount) + 1, Len(prior)),
                                          objs[k].stderr)]
             /\ Last(objs'[k].progressLog) = Last(is)]_vars

C12_FailedAfterSixEntries ==
  \E k \in DOMAIN objs :
    /\ procs[k].state = "closed"
    /\ objs[k].status = "failed" /\ objs[k].exitCode = Some(1)
    /\ Len(objs[k].logged) = RecentCount + 2
    /\ Len(Split(Trim(objs[k].stderr), NL)) = StderrTail + 1
    /\ Last(objs[k].logged).summary =
         <<"Task failed (exit code: ", "1", ")", NL, "Last activity before failure:",
           NL, "  -> ", "b", NL, "  -> ", "b", NL, "  -> ", "a", NL, "  -> ", "b",
           NL, "  -> ", "b", NL, "Stderr (last ", "1", "0", " lines):",
           NL, "x", NL, "x", NL, "x", NL, "x", NL, "x",
           NL, "x", NL, "x", NL, "x", NL, "x", NL, "x">>

\* The registered identifiers whose task is starting or running.
C13_Live == {id \in DOMAIN tasks : objs[tasks[id]].status \notin Terminal}

\* C13: purge_tasks without include_running removes exactly the registered
\* tasks that are completed, failed or cancelled and signals nothing; with
\* include_running it removes every task and sends SIGTERM to each starting or
\* running one that holds a process handle; the count returned is the size of
\* the registry before minus its size after.
C13_PurgeRemovesExactly ==
  [][last'.op = "purge_tasks"
     => LET all      == last'.kind = "include_running"
            signalled == IF all
                         THEN {tasks[id] : id \in {i \in C13_Live :
                                                     objs[tasks[i]].process # None}}
                         ELSE {}
        IN /\ DOMAIN tasks' = (IF all THEN {} ELSE C13_Live)
           /\ \A id \in DOMAIN tasks' : tasks'[id] = tasks[id]
           /\ \A k \in DOMAIN procs :
                procs'[k] = IF k \in signalled
                            THEN [procs[k] EXCEPT !.kills = @ \cup {"SIGTERM"}]
                            ELSE procs[k]
           /\ last'.value = Cardinality(DOMAIN tasks) - Cardinality(DOMAIN tasks')
           /\ UNCHANGED <<objs, timers>>]_vars

C13_PurgedSomeKeptSome ==
  /\ last = Response("purge_tasks", "ok", 2)
  /\ Cardinality(DOMAIN tasks) = 2
  /\ \A id \in DOMAIN tasks : objs[tasks[id]].status = "running"
  /\ \E k \in DOMAIN objs :
       /\ k \notin Registered /\ objs[k].status = "running"
       /\ procs[k].kills = {"SIGTERM"}

\* The last min(n, number of lines) lines of a text, joined by line feeds; the
\* lines of a text are the pieces between its line feeds.
C14_LastLines(text, n) ==
  LET lines == Split(text, NL)
      from  == Len(lines) - Min(n, Len(lines)) + 1
  IN Tail(C12_Listed(SubSeq(lines, from, Len(lines)), <<>>))

C14_Returned(text) ==
  IF last.value.tail_lines > 0
  THEN last.value.output = C14_LastLines(text, last.value.tail_lines)
  ELSE last.value.output = text

\* C14 as stated: get_task_output on a registered task returns the result
\* text when it is non-empty and otherwise the raw fallback output, cut to
\* its last min(N, number of lines) lines when tail_lines = N > 0.
C14_OutputIsResultElseRaw ==
  (last.op = "get_task_output" /\ last.kind = "ok")
  => LET task == objs[tasks[last.value.id]]
     IN C14_Returned(IF task.resultText # <<>> THEN task.resultText
                     ELSE task.stdout)

\* C14, amended: get_task_output on a registered task returns the result text
\* when it is non-empty, otherwise the raw fallback output when that is
\* non-empty, otherwise the text "(no output yet)"; cut to its last
\* min(N, number of lines) lines when tail_lines = N > 0.
C14_OutputIsResultElseRawElseNotice ==
  (last.op = "get_task_output" /\ last.kind = "ok")
  => LET task == objs[tasks[last.value.id]]
     IN C14_Returned(IF task.resultText # <<>> THEN task.resultText
                     ELSE IF task.stdout # <<>> THEN task.stdout
                     ELSE <<"(no output yet)">>)

C14_LastTwoOfFive ==
  /\ last.op = "get_task_output" /\ last.kind = "ok"
  /\ last.value.tail_lines = 2
  /\ objs[tasks[last.value.id]].resultText = <<"a", NL, "b", NL, "a", NL, "b", NL, "a">>
  /\ last.value.output = <<"b", NL, "a">>

\* C15: check_tasks, get_task_output, a get_task_output or cancel_task that
\* finds no task, and a dispatch_task refused for a missing directory change
\* neither the registry nor any field of any task, and spawn or signal no
\* process.
C15_ViewsAndRefusalsChangeNothing ==
  [][(\/ last'.op \in {"check_tasks", "get_task_output"}
      \/ last'.kind \in {"NotFound", "InvalidTarget"})
     => UNCHANGED <<tasks, objs, procs, timers>>]_vars

C15_RefusedBesideRunningTask ==
  /\ last = Response("dispatch_task", "InvalidTarget", 0)
  /\ \E id \in DOMAIN tasks :
       /\ objs[tasks[id]].status = "running"
       /\ objs[tasks[id]].resultText # <<>>
       /\ procs[tasks[id]].state = "alive"

\* What a task's buffer would have given had a separator arrived after it.
C16_HadItBeenTerminated(t) ==
  IF t.stdoutBuffer = <<>> THEN t ELSE processStreamData(t, <<NL>>)

\* The text past the first n characters, without the space around it.
C16_Added(text, n) == Trim(SubSeq(text, n + 1, Len(text)))

\* C16: the close callback's flush treats what is left in the buffer as
\* processStreamData would have, had it been terminated by a separator: the
\* same progress entries, the same result text (message text appended, a
\* result payload taken when the result text is empty), and the same
\* fragment added to the raw fallback output.
C16_FlushAsIfTerminated ==
  [][\A k \in DOMAIN objs :
       (procs[k].state = "alive" /\ procs'[k].state = "closed")
       => LET one == C16_HadItBeenTerminated(objs[k])
          IN /\ Front(objs'[k].logged) = one.logged
             /\ objs'[k].resultText = one.resultText
             /\ C16_Added(objs'[k].stdout, Len(objs[k].stdout))
                  = C16_Added(one.stdout, Len(objs[k].stdout))]_vars

\* C17: between stdout data callbacks the reassembly buffer holds no
\* separator, being exactly the text received after the last separator; and
\* once the close callback has run the buffer is empty.
C17_BufferIsTheOpenFragment ==
  \A k \in DOMAIN objs :
    /\ procs[k].state = "alive"
         => /\ \A i \in DOMAIN objs[k].stdoutBuffer : objs[k].stdoutBuffer[i] # NL
            /\ objs[k].stdoutBuffer = Last(Split(procs[k].heard, NL))
    /\ procs[k].state = "closed" => objs[k].stdoutBuffer = <<>>

\* The segments of a text: its complete lines, trimmed, the blank ones left out.
C18_Segments(text) ==
  LET lines == Front(Split(text, NL))
  IN SelectSeq([i \in DOMAIN lines |-> Trim(lines[i])], LAMBDA l : l # <<>>)

\* The progress entries the records among the segments call for, in order.
RECURSIVE C18_Entries(_)
C18_Entries(segments) ==
  IF segments = <<>> THEN <<>>
  ELSE (IF JsonOK(Head(segments)) /\ ~JsonParse(Head(segments)).isNull
        THEN parseProgressEvent(JsonParse(Head(segments)))
        ELSE <<>>)
       \o C18_Entries(Tail(segments))

\* C18: while the worker runs, the segments received that fail to decode are
\* in the raw fallback output, each followed by a separator, in arrival
\* order; the task is still running; and every record received, before or
\* after a segment that failed, has given its progress entries and its part
\* of the result text.
C18_MalformedOutputIsSkipped ==
  \A k \in Alive :
    LET segments == C18_Segments(procs[k].heard)
        raw      == objs[k].stdout
    IN /\ raw # <<>> => Last(raw) = NL
       /\ SelectSeq(Front(Split(raw, NL)), LAMBDA l : ~JsonOK(l))
            = SelectSeq(segments, LAMBDA l : ~JsonOK(l))
       /\ objs[k].status = "running"
       /\ objs[k].logged
            = <<[type |-> "system", summary |-> <<"Agent started">>]>>
              \o C18_Entries(segments)
       /\ objs[k].resultText = C9_Assembled(segments, <<>>)

C18_RecordsAfterMalformedLines ==
  \E k \in Alive :
    /\ procs[k].heard = <<"x", NL, "A", "a", "}", NL, "y", NL, "R", "b", "}", NL>>
    /\ objs[k].stdout = <<"x", NL, "y", NL>>
    /\ objs[k].resultText = <<"a">>
    /\ Len(objs[k].logged) = 3
    /\ Last(objs[k].logged).type = "result"

\* C19: the raw fallback output holds only segments that failed to decode: no
\* line of it is a record that decoded, whatever the record's kind or content.
C19_RawHoldsOnlyUndecodable ==
  \A k \in DOMAIN objs :
    LET raw == Split(objs[k].stdout, NL)
    IN \A i \in DOMAIN raw :
         ~(JsonOK(Trim(raw[i])) /\ ~JsonParse(Trim(raw[i])).isNull)

\* C20: a spawn that fails is not reported by dispatch_task, which returns
\* success with the task running; the error callback then leaves the task
\* failed, with completedAt set and no process handle, the guidance text
\* appended to its error text, and one system entry with that text appended
\* to its progress history.
C20_LaunchErrorIsCaptured ==
  [][\A k \in DOMAIN objs' :
       /\ k \notin DOMAIN objs
            => /\ last' = Response("dispatch_task", "ok", objs'[k].id)
               /\ objs'[k].status = "running"
       /\ (k \in DOMAIN objs /\ procs[k].state = "spawnfail"
           /\ procs'[k].state = "errored")
            => LET text == guidance(procs[k].fail)
               IN /\ last'.op = "callback"
                  /\ objs'[k].status = "failed"
                  /\ objs'[k].completedAt = Some(now')
                  /\ objs'[k].process = None
                  /\ objs'[k].stderr = objs[k].stderr \o <<NL>> \o text
                  /\ objs'[k].logged
                       = Append(objs[k].logged,
                                [type |-> "system", summary |-> <<"X ">> \o text])
                  /\ Last(objs'[k].progressLog) = Last(objs'[k].logged)]_vars

C20_FailedByPermissionDenied ==
  \E k \in DOMAIN objs :
    /\ procs[k].state = "errored" /\ procs[k].fail = "EACCES"
    /\ objs[k].status = "failed" /\ objs[k].process = None
    /\ objs[k].completedAt # None
    /\ objs[k].stderr = <<NL, "Permission denied when running 'claude'.">>
    /\ Len(objs[k].logged) = 2

\* C21: SIGKILL is sent to a worker only by a cancel's timer that fires
\* before the worker's close or error callback has run; after either
\* callback has run, no SIGKILL is ever sent to it.
C21_NoForcedSignalAfterExit ==
  [][\A k \in DOMAIN procs :
       ("SIGKILL" \in procs'[k].kills /\ "SIGKILL" \notin procs[k].kills)
       => /\ k \in timers /\ k \notin timers'
          /\ procs[k].state \notin {"closed", "errored"}
          /\ objs[k].process # None]_vars

C21_TimerFiredAfterExit ==
  \E k \in DOMAIN procs :
    /\ procs[k].state = "closed"
    /\ procs[k].kills = {"SIGTERM"}
    /\ k \notin timers
    /\ objs[k].process = None

C23_CallbacksTouchOnlyTheirTask ==
  [][last'.op = "callback"
     => /\ tasks' = tasks
        /\ DOMAIN objs' = DOMAIN objs
        /\ \E k \in DOMAIN objs :
             /\ \A j \in DOMAIN objs \ {k} : objs'[j] = objs[j] /\ procs'[j] = procs[j]
             /\ objs'[k].id = objs[k].id
             /\ timers' \in {timers, timers \ {k}}]_vars

C23_ClosedAfterPurge ==
  /\ 1 \notin Registered /\ 2 \in Registered
  /\ procs[1].state = "closed" /\ objs[1].status = "completed"
  /\ objs[1].resultText = <<"a">> /\ objs[1].stderr = <<"x">>
  /\ objs[2] = spawnClaudeAgent(Task(2, MaxClock), 2)
  /\ last.op = "callback"

\* C24: once a task's completedAt is set, by cancel_task, by the close
\* callback or by the error callback, no later step writes another value
\* to it.
C24_CompletedAtWrittenOnce ==
  [][\A k \in DOMAIN objs :
       objs[k].completedAt # None
       => objs'[k].completedAt = objs[k].completedAt]_vars

\* C25: for every task, in every state: exitCode is unset while the status is
\* starting or running; a completed task has exitCode 0; a running task
\* holds a process handle; a completed or failed task holds none.
C25_LifecycleFieldsAgree ==
  \A k \in DOMAIN objs :
    LET t == objs[k]
    IN /\ t.status \in {"starting", "running"} => t.exitCode = None
       /\ t.status = "completed" => t.exitCode = Some(0)
       /\ t.status = "running" => t.process # None
       /\ t.status \in {"completed", "failed"} => t.process = None

C25_CompletedWithCodeZero ==
  \E k \in DOMAIN objs :
    /\ objs[k].status = "completed" /\ objs[k].exitCode = Some(0)
    /\ objs[k].process = None
    /\ procs[k].state = "closed" /\ procs[k].kills = {}

=============================================================================
